---- MODULE Spec2Model ----
(***************************************************************************)
(* Model of the credit-report analysis core of src/test2/server.js:        *)
(* analyzeTextContent and parsePaymentGrid.                                *)
(*                                                                         *)
(* A JavaScript string is a sequence of one-character strings, so that     *)
(* trim, includes, toUpperCase and the regular expression test are         *)
(* computed and not assumed.  A text item is a record                      *)
(*   [str, page, x, y]   with x = transform[4] and y = transform[5].       *)
(* y is stored as a whole number of half units (y = 161 is 80.5), so that  *)
(* Math.round is not the identity; x is stored in whole units.  All        *)
(* coordinates are exactly representable Numbers, so the arithmetic of the *)
(* code on them is exact.                                                  *)
(***************************************************************************)
EXTENDS Integers, Sequences, FiniteSets, TLC

VARIABLES textItems, pc, paymentHistoryMarkers, k, accounts, gridItems, grid,
          yearIdx, statusIdx, result, error

vars == <<textItems, pc, paymentHistoryMarkers, k, accounts, gridItems, grid,
          yearIdx, statusIdx, result, error>>

(***************************************************************************)
(* String literals of the program.                                         *)
(***************************************************************************)
SENTINEL == <<"T", "w", "o", "-", "Y", "e", "a", "r", " ", "p", "a", "y", "m", "e", "n", "t", " ", "h", "i", "s", "t", "o", "r", "y">>

UNSUPPORTED == "Could not find any 'Two-Year payment history' sections in the document. The format might not be supported."

MONTHS == { <<"J", "a", "n">>, <<"F", "e", "b">>, <<"M", "a", "r">>, <<"A", "p", "r">>,
            <<"M", "a", "y">>, <<"J", "u", "n">>, <<"J", "u", "l">>, <<"A", "u", "g">>,
            <<"S", "e", "p">>, <<"O", "c", "t">>, <<"N", "o", "v">>, <<"D", "e", "c">> }

TRANSUNION == <<"T", "r", "a", "n", "s", "U", "n", "i", "o", "n">>

EXPERIAN == <<"E", "x", "p", "e", "r", "i", "a", "n">>

EQUIFAX == <<"E", "q", "u", "i", "f", "a", "x">>

\* The order of the three processBureauRow calls, which is the insertion
\* order of the keys of `data` and so the order of Object.keys(grid.data).
BUREAUS == <<TRANSUNION, EXPERIAN, EQUIFAX>>

UNKNOWN_ACCOUNT == <<"U", "n", "k", "n", "o", "w", "n", " ", "A", "c", "c", "o", "u", "n", "t">>

NA == <<"N", "/", "A">>

UNKNOWN_CODE == <<"U", "n", "k", "n", "o", "w", "n", " ", "C", "o", "d", "e", ":", " ">>

CENTURY == <<"2", "0">>

sOK == <<"O", "K">>

DaysLate(code) == code \o <<" ", "D", "a", "y", "s", " ", "L", "a", "t", "e">>

\* The own properties of the LEGEND object literal.
LEGEND ==
    ( sOK :> <<"C", "u", "r", "r", "e", "n", "t">> )
    @@ ( <<"3", "0">> :> DaysLate(<<"3", "0">>) )
    @@ ( <<"6", "0">> :> DaysLate(<<"6", "0">>) )
    @@ ( <<"9", "0">> :> DaysLate(<<"9", "0">>) )
    @@ ( <<"1", "2", "0">> :> DaysLate(<<"1", "2", "0">>) )
    @@ ( <<"1", "5", "0">> :> DaysLate(<<"1", "5", "0">>) )
    @@ ( <<"1", "8", "0">> :> DaysLate(<<"1", "8", "0">>) )
    @@ ( <<"C", "O">> :> <<"C", "h", "a", "r", "g", "e", "o", "f", "f", " ", "o", "r", " ", "C", "o", "l", "l", "e", "c", "t", "i", "o", "n">> )
    @@ ( <<"R", "F">> :> <<"R", "e", "p", "o", "s", "s", "e", "s", "s", "i", "o", "n", " ", "o", "r", " ", "F", "o", "r", "e", "c", "l", "o", "s", "u", "r", "e">> )
    @@ ( <<"P", "P">> :> <<"P", "a", "y", "m", "e", "n", "t", " ", "P", "l", "a", "n">> )
    @@ ( <<"V", "S">> :> <<"V", "o", "l", "u", "n", "t", "a", "r", "y", " ", "S", "u", "r", "r", "e", "n", "d", "e", "r">> )
    @@ ( <<"N", "D", "P">> :> <<"N", "o", " ", "D", "a", "t", "a", " ", "P", "r", "o", "v", "i", "d", "e", "d">> )

\* LEGEND is a plain object literal: a property it does not own is looked up
\* on Object.prototype.  These are inherited properties a text can name; the
\* value of each is a function object, written here as a one-element
\* sequence that no label or "Unknown Code: ..." string equals.
sConstructor == <<"c", "o", "n", "s", "t", "r", "u", "c", "t", "o", "r">>

sToString == <<"t", "o", "S", "t", "r", "i", "n", "g">>

ObjectPrototype ==
    ( sConstructor :> << "[Function: Object]" >> )
    @@ ( sToString :> << "[Function: toString]" >> )

(***************************************************************************)
(* String operations.                                                      *)
(***************************************************************************)
LowerCase == <<"a", "b", "c", "d", "e", "f", "g", "h", "i", "j", "k", "l", "m", "n", "o", "p", "q", "r", "s", "t", "u", "v", "w", "x", "y", "z">>

UpperCase == <<"A", "B", "C", "D", "E", "F", "G", "H", "I", "J", "K", "L", "M", "N", "O", "P", "Q", "R", "S", "T", "U", "V", "W", "X", "Y", "Z">>

Digits == {"0", "1", "2", "3", "4", "5", "6", "7", "8", "9"}

WhiteSpace == {" "}

\* String.prototype.toUpperCase, one character.
UpperChar(c) ==
    IF \E i \in 1..Len(LowerCase) : LowerCase[i] = c
    THEN UpperCase[CHOOSE i \in 1..Len(LowerCase) : LowerCase[i] = c]
    ELSE c

\* String.prototype.toUpperCase.
ToUpperCase(s) == [i \in 1..Len(s) |-> UpperChar(s[i])]

\* String.prototype.includes.
Includes(s, sub) ==
    \E i \in 0..(Len(s) - Len(sub)) : SubSeq(s, i + 1, i + Len(sub)) = sub

\* String.prototype.trim: white space is removed from both ends.
Trim(s) ==
    IF \A i \in 1..Len(s) : s[i] \in WhiteSpace
    THEN << >>
    ELSE LET first == CHOOSE i \in 1..Len(s) :
                          /\ s[i] \notin WhiteSpace
                          /\ \A j \in 1..(i - 1) : s[j] \in WhiteSpace
             last == CHOOSE i \in 1..Len(s) :
                          /\ s[i] \notin WhiteSpace
                          /\ \A j \in (i + 1)..Len(s) : s[j] \in WhiteSpace
         IN SubSeq(s, first, last)

\* /^\d{2}$/.test(s)
IsTwoDigits(s) == Len(s) = 2 /\ s[1] \in Digits /\ s[2] \in Digits

\* Math.round of a coordinate stored in half units, in whole units: the
\* nearest integer, a half rounding up.
Round(y) == (y + 1) \div 2

\* A length in whole units, in the half units y is stored in.
Units(n) == 2 * n

Abs(n) == IF n < 0 THEN 0 - n ELSE n

(***************************************************************************)
(* Array operations.                                                       *)
(***************************************************************************)
\* Array.prototype.sort with a comparator that is the difference of a numeric
\* key of its operands, (a, b) => key(a) - key(b): the elements in ascending
\* order of key, those of equal key in their original order (the sort is
\* stable).  `keys[i]` is the key of s[i].
SortByKey(s, keys) ==
    LET n == Len(s)
        rank(i) == 1 + Cardinality({j \in 1..n :
                                      \/ keys[j] < keys[i]
                                      \/ (keys[j] = keys[i] /\ j < i)})
    IN [p \in 1..n |-> s[CHOOSE i \in 1..n : rank(i) = p]]

\* Array.prototype.find: the first element the predicate holds of, or
\* undefined, written << >> (no row is empty).  `holds[i]` is the value of
\* the predicate at rows[i].
Find(rows, holds) ==
    IF \E i \in 1..Len(rows) : holds[i]
    THEN rows[CHOOSE i \in 1..Len(rows) :
                  holds[i] /\ \A j \in 1..(i - 1) : ~holds[j]]
    ELSE << >>

\* Array.prototype.some.  `holds[i]` is the value of the predicate at the
\* i-th element.
Some(holds) == \E i \in 1..Len(holds) : holds[i]

\* The elements of a finite set of integers in ascending order.
Ascending(S) ==
    [p \in 1..Cardinality(S) |->
        CHOOSE v \in S : Cardinality({w \in S : w < v}) = p - 1]

(***************************************************************************)
(* parsePaymentGrid                                                        *)
(***************************************************************************)
EmptyGrid == [headers |-> << >>, data |-> << >>]

\* rows[y].push(item) for y = Math.round(item.transform[5]), then
\* Object.values(rows): the rows of the non-negative keys in ascending order
\* of key, then those of the negative keys in the order the keys were
\* inserted, each row holding its items in the order of gridItems.
RowsOf(items) ==
    LET key(i) == Round(items[i].y)
        keys == {key(i) : i \in 1..Len(items)}
        firstAt(y) == CHOOSE i \in 1..Len(items) :
                          key(i) = y /\ \A j \in 1..(i - 1) : key(j) # y
        negFirsts == Ascending({firstAt(y) : y \in {v \in keys : v < 0}})
        order == Ascending({v \in keys : v >= 0})
                 \o [p \in 1..Len(negFirsts) |-> key(negFirsts[p])]
    IN [p \in 1..Len(order) |->
           SelectSeq(items, LAMBDA it : Round(it.y) = order[p])]

\* .sort((a, b) => b[0].transform[5] - a[0].transform[5])
SortedRows(items) ==
    LET rows == RowsOf(items)
    IN SortByKey(rows, [i \in 1..Len(rows) |-> 0 - rows[i][1].y])

IsMonthItem(item) == Trim(item.str) \in MONTHS

IsYearItem(item) == IsTwoDigits(Trim(item.str))

\* sortedRows.find(row => row.some(...)) for the five row classes.
MonthRowOf(sortedRows) ==
    Find(sortedRows,
         [r \in 1..Len(sortedRows) |->
             Some([i \in 1..Len(sortedRows[r]) |-> IsMonthItem(sortedRows[r][i])])])

YearRowOf(sortedRows) ==
    Find(sortedRows,
         [r \in 1..Len(sortedRows) |->
             Some([i \in 1..Len(sortedRows[r]) |-> IsYearItem(sortedRows[r][i])])])

BureauRowOf(sortedRows, bureauName) ==
    Find(sortedRows,
         [r \in 1..Len(sortedRows) |->
             Some([i \in 1..Len(sortedRows[r]) |->
                      Includes(sortedRows[r][i].str, bureauName)])])

\* monthRow.map(...).sort((a, b) => a.x - b.x)
InitialHeaders(monthRow) ==
    LET hs == [i \in 1..Len(monthRow) |->
                  [month |-> Trim(monthRow[i].str), x |-> monthRow[i].x, year |-> NA]]
    IN SortByKey(hs, [i \in 1..Len(hs) |-> hs[i].x])

\* A variant that subtracts the magnitudes of the two positions.
DistanceOfMagnitudes(header, x) == Abs(Abs(header.x) - Abs(x))

\* Math.abs(header.x - item.transform[4])
Distance(header, x) == Abs(header.x - x)

\* A variant with <= for <, which keeps the last of several nearest headers.
CloserOrEqual(distance, minDistance) ==
    (~minDistance.finite) \/ distance <= minDistance.value

\* The update of the running minimum: distance < minDistance.  minDistance
\* starts at Infinity (finite = FALSE), below which every distance is.
Closer(distance, minDistance) ==
    (~minDistance.finite) \/ distance < minDistance.value

\* headers.forEach((header, index) => ...) of the nearest-column search,
\* from `index` on: the index it leaves in closestMonthIndex /
\* closestHeaderIndex.  Indices are 1-based here; 0 stands for -1.
RECURSIVE ClosestFrom(_, _, _, _, _)
ClosestFrom(headers, x, index, minDistance, closest) ==
    IF index > Len(headers) THEN closest
    ELSE LET distance == Distance(headers[index], x)
         IN IF Closer(distance, minDistance)
            THEN ClosestFrom(headers, x, index + 1,
                             [finite |-> TRUE, value |-> distance], index)
            ELSE ClosestFrom(headers, x, index + 1, minDistance, closest)

ClosestIndex(headers, x) ==
    ClosestFrom(headers, x, 1, [finite |-> FALSE, value |-> 0], 0)

\* `20${yearItem.str.trim()}`
YearString(yearItem) == CENTURY \o Trim(yearItem.str)

\* yearRow.forEach(yearItem => ...), from item n on.
RECURSIVE AssignYears(_, _, _)
AssignYears(headers, yearRow, n) ==
    IF n > Len(yearRow) THEN headers
    ELSE LET closestMonthIndex == ClosestIndex(headers, yearRow[n].x)
         IN AssignYears(
                IF closestMonthIndex # 0
                THEN [headers EXCEPT ![closestMonthIndex].year = YearString(yearRow[n])]
                ELSE headers,
                yearRow, n + 1)

\* bureauRow.filter(item => !item.str.includes(bureauName))
StatusItems(bureauRow, bureauName) ==
    SelectSeq(bureauRow, LAMBDA item : ~Includes(item.str, bureauName))

\* A variant with one entry too many.
BlankStatusesLong(headers) == [i \in 1..(Len(headers) + 1) |-> << >>]

\* Array(headers.length).fill('')
BlankStatuses(headers) == [i \in 1..Len(headers) |-> << >>]

\* statusItems.forEach(statusItem => ...), from item n on.
RECURSIVE AssignStatuses(_, _, _, _)
AssignStatuses(headers, statusItems, statuses, n) ==
    IF n > Len(statusItems) THEN statuses
    ELSE LET closestHeaderIndex == ClosestIndex(headers, statusItems[n].x)
         IN AssignStatuses(
                headers, statusItems,
                IF closestHeaderIndex # 0
                THEN [statuses EXCEPT ![closestHeaderIndex] = Trim(statusItems[n].str)]
                ELSE statuses,
                n + 1)

\* processBureauRow for a row that was found: the value of data[bureauName].
ProcessBureauRow(headers, bureauRow, bureauName) ==
    AssignStatuses(headers, StatusItems(bureauRow, bureauName),
                   BlankStatuses(headers), 1)

\* The bureaus whose row was found: the keys of `data`.
PresentBureaus(sortedRows) ==
    {BUREAUS[b] : b \in {c \in 1..Len(BUREAUS) :
                             BureauRowOf(sortedRows, BUREAUS[c]) # << >>}}

\* A variant that tests the month row alone.
RowMissingMonthOnly(monthRow, yearRow) == monthRow = << >>

\* if (!monthRow || !yearRow) return { headers: [], data: {} }
RowMissing(monthRow, yearRow) == monthRow = << >> \/ yearRow = << >>

ParsePaymentGrid(items) ==
    IF Len(items) = 0 THEN EmptyGrid
    ELSE LET sortedRows == SortedRows(items)
             monthRow == MonthRowOf(sortedRows)
             yearRow == YearRowOf(sortedRows)
         IN IF RowMissing(monthRow, yearRow) THEN EmptyGrid
            ELSE LET headers == AssignYears(InitialHeaders(monthRow), yearRow, 1)
                 IN [headers |-> headers,
                     data |-> [b \in PresentBureaus(sortedRows) |->
                                  ProcessBureauRow(headers, BureauRowOf(sortedRows, b), b)]]

(***************************************************************************)
(* analyzeTextContent                                                      *)
(***************************************************************************)
\* gridTop = marker.transform[5] - 100
GridTopOffset == 100

\* gridBottom = marker.transform[5] - 20
GridBottomOffset == 20

IsMarker(item) == Includes(item.str, SENTINEL)

\* A variant that takes only an item whose string is the phrase itself.
MarkersOfExact(items) == SelectSeq(items, LAMBDA item : item.str = SENTINEL)

\* textItems.filter(item => item.str.includes('Two-Year payment history'))
MarkersOf(items) == SelectSeq(items, IsMarker)

\* A variant without the upper-case test.
IsPotentialNameAnyCase(item, marker) ==
    /\ item.page = marker.page
    /\ item.y > marker.y
    /\ Len(Trim(item.str)) > 2

\* The filter of potentialAccountNames.
IsPotentialName(item, marker) ==
    /\ item.page = marker.page
    /\ item.y > marker.y
    /\ Len(Trim(item.str)) > 2
    /\ ToUpperCase(item.str) = item.str

\* textItems.filter(...).sort((a, b) => b.transform[5] - a.transform[5])
PotentialAccountNames(items, marker) ==
    LET names == SelectSeq(items, LAMBDA item : IsPotentialName(item, marker))
    IN SortByKey(names, [i \in 1..Len(names) |-> 0 - names[i].y])

\* The test of the closest-name loop: distance > 0 && distance < minDistance.
NameIsCloser(distance, minDistance) ==
    distance > 0 /\ Closer(distance, minDistance)

\* for (const name of potentialAccountNames) ..., from name n on: the final
\* closestName, << >> standing for null.
RECURSIVE ClosestNameFrom(_, _, _, _, _)
ClosestNameFrom(names, marker, n, minDistance, closestName) ==
    IF n > Len(names) THEN closestName
    ELSE LET distance == names[n].y - marker.y
         IN IF NameIsCloser(distance, minDistance)
            THEN ClosestNameFrom(names, marker, n + 1,
                                 [finite |-> TRUE, value |-> distance], <<names[n]>>)
            ELSE ClosestNameFrom(names, marker, n + 1, minDistance, closestName)

AccountName(items, marker) ==
    LET names == PotentialAccountNames(items, marker)
        closestName == ClosestNameFrom(names, marker, 1,
                                       [finite |-> FALSE, value |-> 0], << >>)
    IN IF Len(names) > 0 /\ closestName # << >>
       THEN Trim(closestName[1].str)
       ELSE UNKNOWN_ACCOUNT

\* The bounding box of the payment grid of a marker.
InWindow(item, marker) ==
    /\ item.page = marker.page
    /\ item.y < marker.y - Units(GridBottomOffset)
    /\ item.y > marker.y - Units(GridTopOffset)

GridItemsOf(items, marker) == SelectSeq(items, LAMBDA item : InWindow(item, marker))

\* LEGEND[code]: an own property, else one inherited from Object.prototype,
\* else undefined, written << >>.
LegendLookup(code) ==
    IF code \in DOMAIN LEGEND THEN LEGEND[code]
    ELSE IF code \in DOMAIN ObjectPrototype THEN ObjectPrototype[code]
    ELSE << >>

\* LEGEND[status.trim()] || `Unknown Code: ${status.trim()}`
StatusLabel(status) ==
    IF LegendLookup(Trim(status)) # << >>
    THEN LegendLookup(Trim(status))
    ELSE UNKNOWN_CODE \o Trim(status)

\* A variant without the test for the empty string.
IsIssueNotOK(status) == Trim(status) # sOK

\* status.trim() !== 'OK' && status.trim() !== ''
IsIssue(status) == Trim(status) # sOK /\ Trim(status) # << >>

\* grid.headers[index] || { month: 'N/A', year: 'N/A' }
HeaderAt(headers, index) ==
    IF index <= Len(headers) THEN headers[index]
    ELSE [month |-> NA, x |-> 0, year |-> NA]

\* grid.data[bureau].forEach((status, index) => ...): the issues pushed.
BureauIssues(g, bureau) ==
    LET statuses == g.data[bureau]
        hits == SelectSeq([i \in 1..Len(statuses) |-> i],
                          LAMBDA i : IsIssue(statuses[i]))
    IN [p \in 1..Len(hits) |->
           [bureau |-> bureau,
            month |-> HeaderAt(g.headers, hits[p]).month,
            year |-> HeaderAt(g.headers, hits[p]).year,
            status |-> StatusLabel(statuses[hits[p]])]]

\* for (const bureau of Object.keys(grid.data)) ..., from bureau b on.
RECURSIVE IssuesFrom(_, _)
IssuesFrom(g, b) ==
    IF b > Len(BUREAUS) THEN << >>
    ELSE (IF BUREAUS[b] \in DOMAIN g.data THEN BureauIssues(g, BUREAUS[b]) ELSE << >>)
         \o IssuesFrom(g, b + 1)

\* if (grid.headers.length > 0) { ... }
IssuesOf(g) == IF Len(g.headers) > 0 THEN IssuesFrom(g, 1) ELSE << >>

\* One iteration of the loop over the markers: currentAccount.
AccountOf(items, marker) ==
    [name |-> AccountName(items, marker),
     issues |-> IssuesOf(ParsePaymentGrid(GridItemsOf(items, marker)))]

\* A variant that filters nothing.
WithIssuesUnfiltered(accs) == accs

\* accounts.filter(acc => acc.issues.length > 0)
WithIssues(accs) == SelectSeq(accs, LAMBDA acc : Len(acc.issues) > 0)

\* The index each item of the year row is assigned (closestMonthIndex), and
\* the index each status item of each found bureau row is assigned
\* (closestHeaderIndex), as the parse of `items` computes them.
Assignments(items) ==
    LET sortedRows == SortedRows(items)
        monthRow == MonthRowOf(sortedRows)
        yearRow == YearRowOf(sortedRows)
        headers == InitialHeaders(monthRow)
    IN IF Len(items) = 0 \/ RowMissing(monthRow, yearRow)
       THEN [year |-> << >>, status |-> << >>]
       ELSE [year |-> [n \in 1..Len(yearRow) |-> ClosestIndex(headers, yearRow[n].x)],
             status |-> [b \in PresentBureaus(sortedRows) |->
                            LET statusItems == StatusItems(BureauRowOf(sortedRows, b), b)
                            IN [n \in 1..Len(statusItems) |->
                                   ClosestIndex(headers, statusItems[n].x)]]]

(***************************************************************************)
(* The input streams.  Every stream is a sequence of text items as the     *)
(* extraction adapter delivers them.  Four families are drawn from:        *)
(*   Documents      several account sections, each with its own rows;      *)
(*   GridDocuments  one section whose grid rows vary cell by cell;         *)
(*   NameDocuments  one section with varying items around the marker;      *)
(*   CodeDocuments  one section with one status cell of varying code;      *)
(* each together with LooseDocuments, which hold no marker.                *)
(***************************************************************************)
MaxMarkers == 2

MaxCols == 2

MaxNames == 2

MaxLoose == 2

SeqsUpTo(S, n) == UNION {[1..m -> S] : m \in 0..n}

Item(str, page, x, y) == [str |-> str, page |-> page, x |-> x, y |-> y]

Pages == {1, 2}

\* The x positions of cells: 10 is as far from 0 as from 20.
Xs == {0, 10, 20}

sJan == <<"J", "a", "n">>

sFeb == <<"F", "e", "b">>

MonthNames == <<sJan, sFeb, <<"M", "a", "r">>, <<"A", "p", "r">>>>

s23 == <<"2", "3">>

s24 == <<"2", "4">>

s30 == <<"3", "0">>

sPadded30 == <<" ", "3", "0", " ">>

sXX == <<"X", "X">>

sAcmeBank == <<"A", "C", "M", "E", " ", "B", "A", "N", "K">>

sAcmeMixed == <<"A", "c", "m", "e", " ", "B", "a", "n", "k">>

sAB == <<"A", "B">>

sPaddedZed == <<" ", "Z", "E", "D", " ">>

\* The phrase with a lower-case y: not the sentinel.
sNearMiss == <<"T", "w", "o", "-", "y", "e", "a", "r", " ", "p", "a", "y", "m", "e", "n", "t", " ", "h", "i", "s", "t", "o", "r", "y">>

\* The y of the first marker of a page, and the rows of a section below its
\* marker, in half units.
TopY == Units(600)

MonthDy == Units(30)

YearDy == Units(40)

BureauDy == <<Units(50), Units(60), Units(70)>>

Marker(page, y) == Item(SENTINEL \o <<":">>, page, 0, y)

\* A row of cells [str, x] at height y of a page.
Row(cells, page, y) ==
    [i \in 1..Len(cells) |-> Item(cells[i].str, page, cells[i].x, y)]

Cell(str, x) == [str |-> str, x |-> x]

\* ---- LooseDocuments: no marker.
LooseItems ==
    { Item(sNearMiss, 1, 0, TopY), Item(sAcmeBank, 1, 0, TopY + Units(10)),
      Item(sJan, 1, 0, TopY - MonthDy), Item(s30, 2, 10, TopY - BureauDy[1]) }

LooseDocuments(P(_)) == \E items \in SeqsUpTo(LooseItems, MaxLoose) : P(items)

\* ---- Documents: up to MaxMarkers sections, the first on page 1.  Section s
\* has its marker at TopY - (s - 1) * gap on a page of its own choice, a name
\* line above it or not, and below it a month row [Jan, Feb], a year row
\* [23, 23] and a TransUnion row [TransUnion, code, ''], of which the month
\* row or the year row may be missing.
SectionNames == <<sAcmeBank, sPaddedZed, <<"T", "H", "I", "R", "D">>, <<"F", "O", "U", "R", "T", "H">>>>

RowKinds == {"full", "noMonth", "noYear"}

sCO == <<"C", "O">>

LightCodes == {sOK, s30, sCO}

\* A gap of 50 puts the next marker inside the window of the one above it.
SectionGaps == {Units(50), Units(150)}

SectionChoices == [page : Pages, rows : RowKinds, code : LightCodes]

Section(c, named, s, y) ==
    (IF named THEN <<Item(SectionNames[s], c.page, 0, y + Units(10))>> ELSE << >>)
    \o <<Marker(c.page, y)>>
    \o (IF c.rows # "noMonth"
        THEN Row(<<Cell(sJan, 0), Cell(sFeb, 10)>>, c.page, y - MonthDy)
        ELSE << >>)
    \o (IF c.rows # "noYear"
        THEN Row(<<Cell(s23, 0), Cell(s23, 10)>>, c.page, y - YearDy)
        ELSE << >>)
    \o Row(<<Cell(TRANSUNION, 0 - 20), Cell(c.code, 0), Cell(<< >>, 10)>>,
           c.page, y - BureauDy[1])

RECURSIVE Sections(_, _, _, _)
Sections(cs, gap, named, s) ==
    IF s > Len(cs) THEN << >>
    ELSE Section(cs[s], named, s, TopY - (s - 1) * gap)
         \o Sections(cs, gap, named, s + 1)

\* Documents(P) holds when P holds of one of these streams; likewise below.
Documents(P(_)) ==
    \E cs \in SeqsUpTo(SectionChoices, MaxMarkers), gap \in SectionGaps, named \in BOOLEAN :
        /\ cs # << >>
        /\ cs[1].page = 1
        /\ P(Sections(cs, gap, named, 1))

\* ---- GridDocuments: one marker; a month row of up to MaxCols cells
\* (Jan, Feb, ... in stream order, at any x); then either a year row of up to
\* MaxCols cells of any YearStrs at any x, on a line of its own or on a line
\* that rounds into the month row, with fixed rows of the three bureaus; or a
\* fixed year row with a TransUnion row of up to MaxCols status cells.
YearStrs == {s24, << >>}

StatusStrs == {s30, sOK, << >>}

MonthCells(xs) == [i \in 1..Len(xs) |-> Cell(MonthNames[i], xs[i])]

\* 30.5 units below the marker rounds to the month row's line.
YearRowDys == {YearDy, MonthDy + 1}

YearRichDocument(xs, years, dy) ==
    <<Marker(1, TopY)>>
    \o Row(MonthCells(xs), 1, TopY - MonthDy)
    \o Row(years, 1, TopY - dy)
    \o Row(<<Cell(TRANSUNION, 0 - 20), Cell(sPadded30, 10)>>, 1, TopY - BureauDy[1])
    \o Row(<<Cell(s30, 20), Cell(EXPERIAN, 0 - 20)>>, 1, TopY - BureauDy[2])
    \o Row(<<Cell(EQUIFAX, 0 - 20), Cell(sOK, 0), Cell(sXX, 20)>>, 1, TopY - BureauDy[3])

BureauRichDocument(xs, statuses) ==
    <<Marker(1, TopY)>>
    \o Row(MonthCells(xs), 1, TopY - MonthDy)
    \o Row(<<Cell(s23, 0), Cell(s23, 10)>>, 1, TopY - YearDy)
    \o Row(<<Cell(TRANSUNION, 0 - 20)>> \o statuses, 1, TopY - BureauDy[1])

GridDocuments(P(_)) ==
    \/ \E xs \in SeqsUpTo(Xs, MaxCols),
          years \in SeqsUpTo([str : YearStrs, x : Xs], MaxCols),
          dy \in YearRowDys :
           P(YearRichDocument(xs, years, dy))
    \/ \E xs \in SeqsUpTo(Xs, MaxCols),
          statuses \in SeqsUpTo([str : StatusStrs, x : Xs], MaxCols) :
           P(BureauRichDocument(xs, statuses))

\* ---- NameDocuments: up to MaxNames items of any NameStrs, on either page,
\* below, at or above the marker, followed by one section with an issue.
NameStrs == {sAcmeBank, sAcmeMixed, sAB, sPaddedZed}

NameYs == {TopY - Units(10), TopY, TopY + Units(10), TopY + Units(20)}

NameDocuments(P(_)) ==
    \E ns \in SeqsUpTo([str : NameStrs, page : Pages, y : NameYs], MaxNames) :
        P([i \in 1..Len(ns) |-> Item(ns[i].str, ns[i].page, 0, ns[i].y)]
          \o Section([page |-> 1, rows |-> "full", code |-> s30], FALSE, 1, TopY))

\* ---- CodeDocuments: one section with month row [Jan], year row [23] and
\* one bureau row holding one status cell.
StatusCodes ==
    DOMAIN LEGEND \cup DOMAIN ObjectPrototype \cup {sXX, sPadded30, << >>, <<"x">>}

CodeDocument(bureau, code) ==
    <<Marker(1, TopY)>>
    \o Row(<<Cell(sJan, 0)>>, 1, TopY - MonthDy)
    \o Row(<<Cell(s23, 0)>>, 1, TopY - YearDy)
    \o Row(<<Cell(bureau, 0 - 20), Cell(code, 0)>>, 1, TopY - BureauDy[1])

CodeDocuments(P(_)) ==
    \E b \in 1..Len(BUREAUS), code \in StatusCodes : P(CodeDocument(BUREAUS[b], code))

(***************************************************************************)
(* The state machine: one call of analyzeTextContent(textItems).           *)
(***************************************************************************)
NoResult == [returned |-> FALSE, accounts |-> << >>]

NoError == [thrown |-> FALSE, message |-> ""]

Start(items) ==
    /\ textItems = items
    /\ pc = "start"
    /\ paymentHistoryMarkers = << >>
    /\ k = 0
    /\ accounts = << >>
    /\ gridItems = << >>
    /\ grid = EmptyGrid
    /\ yearIdx = << >>
    /\ statusIdx = << >>
    /\ result = NoResult
    /\ error = NoError

Init == Documents(Start) \/ LooseDocuments(Start)

InitGrid == GridDocuments(Start) \/ LooseDocuments(Start)

InitName == NameDocuments(Start) \/ LooseDocuments(Start)

InitCode == CodeDocuments(Start) \/ LooseDocuments(Start)

\* The filter found markers: the loop over them starts.
FindMarkers ==
    /\ pc = "start"
    /\ Len(MarkersOf(textItems)) # 0
    /\ paymentHistoryMarkers' = MarkersOf(textItems)
    /\ k' = 1
    /\ pc' = "loop"
    /\ UNCHANGED <<textItems, accounts, gridItems, grid, yearIdx, statusIdx, result, error>>

\* if (paymentHistoryMarkers.length === 0) throw new Error(...)
ThrowUnsupported ==
    /\ pc = "start"
    /\ Len(MarkersOf(textItems)) = 0
    /\ error' = [thrown |-> TRUE, message |-> UNSUPPORTED]
    /\ pc' = "thrown"
    /\ UNCHANGED <<textItems, paymentHistoryMarkers, k, accounts, gridItems, grid,
                   yearIdx, statusIdx, result>>

\* One iteration of for (const marker of paymentHistoryMarkers).
ProcessMarker ==
    /\ pc = "loop"
    /\ k <= Len(paymentHistoryMarkers)
    /\ LET marker == paymentHistoryMarkers[k]
           items == GridItemsOf(textItems, marker)
           g == ParsePaymentGrid(items)
           assigned == Assignments(items)
       IN /\ gridItems' = items
          /\ grid' = g
          /\ yearIdx' = assigned.year
          /\ statusIdx' = assigned.status
          /\ accounts' = Append(accounts,
                                [name |-> AccountName(textItems, marker),
                                 issues |-> IssuesOf(g)])
    /\ k' = k + 1
    /\ UNCHANGED <<textItems, pc, paymentHistoryMarkers, result, error>>

\* return accounts.filter(acc => acc.issues.length > 0)
Return ==
    /\ pc = "loop"
    /\ k > Len(paymentHistoryMarkers)
    /\ result' = [returned |-> TRUE, accounts |-> WithIssues(accounts)]
    /\ pc' = "done"
    /\ UNCHANGED <<textItems, paymentHistoryMarkers, k, accounts, gridItems, grid,
                   yearIdx, statusIdx, error>>

Next == FindMarkers \/ ThrowUnsupported \/ ProcessMarker \/ Return

Spec == Init /\ [][Next]_vars

SpecGrid == InitGrid /\ [][Next]_vars

SpecName == InitName /\ [][Next]_vars

SpecCode == InitCode /\ [][Next]_vars

(***************************************************************************)
(* Vocabulary of the properties, stated on the input stream itself.        *)
(***************************************************************************)
\* The positions in the stream of the items that contain the sentinel.
MarkerPositions == {i \in 1..Len(textItems) : Includes(textItems[i].str, SENTINEL)}

\* The account record and the grid of the marker at position i of the stream.
RecordAt(i) == AccountOf(textItems, textItems[i])

GridAt(i) == ParsePaymentGrid(GridItemsOf(textItems, textItems[i]))

\* Whether item j lies in the grid window of the marker at position i.
Below(i, j) ==
    /\ textItems[j].page = textItems[i].page
    /\ textItems[j].y < textItems[i].y - Units(GridBottomOffset)
    /\ textItems[j].y > textItems[i].y - Units(GridTopOffset)

\* The loop has just handled a marker: its account is the last of accounts,
\* gridItems is its window and grid the parse of it.
Handled == pc = "loop" /\ k > 1

LastAccount == accounts[k - 1]

(***************************************************************************)
(* C1.  A stream in which no item's string contains the sentinel phrase    *)
(* (the empty stream included) makes analyzeTextContent fail with the      *)
(* "unsupported document" error and return no list at all; a stream with   *)
(* at least one such item does not raise that error.                       *)
(***************************************************************************)
C1_UnsupportedIffNoMarker ==
    /\ pc # "start" =>
          (error.thrown <=> MarkerPositions = {})
    /\ error.thrown =>
          /\ pc = "thrown"
          /\ error.message = UNSUPPORTED
          /\ ~result.returned
          /\ accounts = << >>
    /\ pc = "done" => ~error.thrown /\ result.returned

\* A non-empty stream without a marker (it holds the near-miss phrase) failed.
C1_Witness ==
    /\ pc = "thrown"
    /\ \E i \in 1..Len(textItems) : textItems[i].str = sNearMiss

(***************************************************************************)
(* C2.  With at least one marker, the returned list is exactly the         *)
(* per-marker account records in marker discovery order with those of zero *)
(* issues removed: every returned account has an issue, the kept accounts  *)
(* are in the order of their markers, and an account whose every in-window *)
(* bureau status is 'OK' or empty is absent.                               *)
(***************************************************************************)
\* Some bureau status of the marker at position i is neither 'OK' nor empty.
HasBadStatus(i) ==
    LET data == GridAt(i).data
    IN \E b \in DOMAIN data :
           \E c \in 1..Len(data[b]) : data[b][c] \notin {sOK, << >>}

C2_Kept == Ascending({i \in MarkerPositions : HasBadStatus(i)})

C2_ResultIsKeptAccountsInOrder ==
    pc = "done" =>
        LET kept == C2_Kept
        IN /\ result.returned
           /\ Len(result.accounts) = Len(kept)
           /\ \A p \in 1..Len(kept) : result.accounts[p] = RecordAt(kept[p])
           /\ \A p \in 1..Len(result.accounts) : Len(result.accounts[p].issues) >= 1

\* Two markers: the first account has a grid whose statuses are all 'OK' or
\* empty and is dropped, the second is returned.
C2_Witness ==
    /\ pc = "done"
    /\ Len(accounts) = 2
    /\ Cardinality(MarkerPositions) = 2
    /\ \E i \in MarkerPositions :
          /\ \A j \in MarkerPositions : i <= j
          /\ ~HasBadStatus(i)
          /\ DOMAIN GridAt(i).data # {}
    /\ result.accounts = <<accounts[2]>>

(***************************************************************************)
(* C3.  Soft failure per marker: a marker whose grid window has no month   *)
(* row or no year row gets an empty Grid, contributes zero issues, is      *)
(* excluded from the result without an error, and the accounts of the      *)
(* other markers are reported as they are when the loop leaves that marker *)
(* out.  With two markers of which the second has no year row, the result  *)
(* holds only the first marker's account (when it has an issue).           *)
(***************************************************************************)
\* The window of the marker at position i holds no month item / no item of
\* exactly two digits, so it has no month row / no year row.
LacksMonthRow(i) ==
    ~\E j \in 1..Len(textItems) : Below(i, j) /\ Trim(textItems[j].str) \in MONTHS

LacksYearRow(i) ==
    ~\E j \in 1..Len(textItems) : Below(i, j) /\ IsTwoDigits(Trim(textItems[j].str))

SoftFails(i) == LacksMonthRow(i) \/ LacksYearRow(i)

\* The list the loop and the final filter yield over the markers other than
\* the one at position i.
ResultWithout(i) ==
    LET others == Ascending(MarkerPositions \ {i})
        kept == SelectSeq(others, LAMBDA j : Len(RecordAt(j).issues) > 0)
    IN [p \in 1..Len(kept) |-> RecordAt(kept[p])]

\* The number of markers at or before position i: the index of its account.
Ordinal(i) == Cardinality({j \in MarkerPositions : j <= i})

C3_SoftFailureIsSilent ==
    /\ (Handled /\ SoftFails(CHOOSE i \in MarkerPositions : Ordinal(i) = k - 1)) =>
          /\ grid = EmptyGrid
          /\ LastAccount.issues = << >>
          /\ ~error.thrown
    /\ pc = "done" =>
          \A i \in MarkerPositions :
              SoftFails(i) =>
                  /\ accounts[Ordinal(i)].issues = << >>
                  /\ ~error.thrown
                  /\ result.returned
                  /\ result.accounts = ResultWithout(i)
    /\ (pc = "done" /\ Cardinality(MarkerPositions) = 2
        /\ (\E i \in MarkerPositions : Ordinal(i) = 2 /\ LacksYearRow(i))
        /\ Len(accounts[1].issues) >= 1) =>
          result.accounts = <<accounts[1]>>

\* Two markers, the second without a year row but with a month row and a
\* status that is not 'OK'; the first account has an issue and is the result.
C3_Witness ==
    /\ pc = "done"
    /\ Cardinality(MarkerPositions) = 2
    /\ \E i \in MarkerPositions :
          /\ Ordinal(i) = 2
          /\ LacksYearRow(i)
          /\ ~LacksMonthRow(i)
          /\ \E j \in 1..Len(textItems) : Below(i, j) /\ textItems[j].str = sCO
    /\ Len(accounts[1].issues) >= 1
    /\ result.accounts = <<accounts[1]>>

(***************************************************************************)
(* C4.  For a marker whose window holds a month row, a year row and bureau *)
(* rows, the account's issues are exactly one issue per (present bureau,   *)
(* column i) whose status is non-empty and not 'OK', in the order of the   *)
(* bureaus and then of the columns, and none for any other cell; each      *)
(* carries the bureau's name and the month and year of Header[i], the year *)
(* being '20' followed by the two-digit year item assigned to that column. *)
(* Month row [Jan, Feb], year row [23, 23], TransUnion row                 *)
(* [TransUnion, 30, ''] yields the single issue                            *)
(* {TransUnion, Jan, 2023, '30 Days Late'}.                                *)
(***************************************************************************)
\* The cells <<bureau index, column>> of the grid whose status is neither
\* empty nor 'OK', bureau by bureau and column by column.
C4_Cells ==
    LET bad(b) == IF BUREAUS[b] \in DOMAIN grid.data
                  THEN SelectSeq([c \in 1..Len(grid.data[BUREAUS[b]]) |-> <<b, c>>],
                                 LAMBDA bc : grid.data[BUREAUS[b]][bc[2]] \notin {sOK, << >>})
                  ELSE << >>
    IN bad(1) \o bad(2) \o bad(3)

\* The year-row items of the window just parsed.
C4_YearRow == YearRowOf(SortedRows(gridItems))

C4_Example ==
    <<Marker(1, TopY)>>
    \o Row(<<Cell(sJan, 0), Cell(sFeb, 10)>>, 1, TopY - MonthDy)
    \o Row(<<Cell(s23, 0), Cell(s23, 10)>>, 1, TopY - YearDy)
    \o Row(<<Cell(TRANSUNION, 0 - 20), Cell(s30, 0), Cell(<< >>, 10)>>, 1, TopY - BureauDy[1])

ParsedYearRow == YearRowOf(SortedRows(gridItems))

ParsedStatusItems(b) == StatusItems(BureauRowOf(SortedRows(gridItems), b), b)

\* Header i is a nearest header of position x, and the first such.
NearestFirst(i, x) ==
    /\ i \in 1..Len(grid.headers)
    /\ \A j \in 1..Len(grid.headers) :
          Abs(grid.headers[i].x - x) <= Abs(grid.headers[j].x - x)
    /\ \A j \in 1..(i - 1) :
          Abs(grid.headers[i].x - x) < Abs(grid.headers[j].x - x)

\* Position x has two nearest headers.
Tied(x) ==
    \E i, j \in 1..Len(grid.headers) :
        /\ i < j
        /\ Abs(grid.headers[i].x - x) = Abs(grid.headers[j].x - x)
        /\ \A h \in 1..Len(grid.headers) :
              Abs(grid.headers[i].x - x) <= Abs(grid.headers[h].x - x)

\* The last element of a sequence of indices that equals c, or 0.
LastAssigned(idx, c) ==
    IF \E n \in 1..Len(idx) : idx[n] = c
    THEN CHOOSE n \in 1..Len(idx) : idx[n] = c /\ \A m \in (n + 1)..Len(idx) : idx[m] # c
    ELSE 0

(***************************************************************************)
(* C7.  Nearest-column assignment is translation-invariant: adding a       *)
(* constant d to the x of every item of a window leaves unchanged the      *)
(* header index each year item and each status item is assigned, and the   *)
(* months, years and per-bureau status lists of the parsed Grid.           *)
(***************************************************************************)
Shifts == {0 - 10, 1000}

Shifted(items, d) == [i \in 1..Len(items) |-> [items[i] EXCEPT !.x = @ + d]]

\* The Grid without the x of its headers.
Columns(g) ==
    [months |-> [i \in 1..Len(g.headers) |-> g.headers[i].month],
     years |-> [i \in 1..Len(g.headers) |-> g.headers[i].year],
     data |-> g.data]

C7_TranslationInvariant ==
    Handled =>
        \A d \in Shifts :
            LET shifted == Shifted(gridItems, d)
                assigned == Assignments(shifted)
            IN /\ assigned.year = yearIdx
               /\ assigned.status = statusIdx
               /\ Columns(ParsePaymentGrid(shifted)) = Columns(grid)

\* A grid of two columns at different x, with a year and a status assigned
\* to the second column.
C7_Witness ==
    /\ Handled
    /\ Len(grid.headers) = 2
    /\ grid.headers[1].x # grid.headers[2].x
    /\ \E n \in 1..Len(yearIdx) : yearIdx[n] = 2
    /\ TRANSUNION \in DOMAIN statusIdx
    /\ \E n \in 1..Len(statusIdx[TRANSUNION]) : statusIdx[TRANSUNION][n] = 2

(***************************************************************************)
(* C8.  The nearest-column rule is a stable argmin: every year-row item    *)
(* and every non-label bureau-row item is assigned to a Header at minimal  *)
(* absolute x-distance, the one of lowest index among several; with a      *)
(* non-empty Header list the assignment always yields a valid index.  The  *)
(* year of a Header and the status of a column are those of the last item  *)
(* assigned to it.                                                         *)
(***************************************************************************)
C8_StableArgmin ==
    (Handled /\ grid.headers # << >>) =>
        LET yearRow == ParsedYearRow
        IN /\ Len(yearIdx) = Len(yearRow)
           /\ \A n \in 1..Len(yearRow) : NearestFirst(yearIdx[n], yearRow[n].x)
           /\ \A c \in 1..Len(grid.headers) :
                 LET n == LastAssigned(yearIdx, c)
                 IN grid.headers[c].year =
                        IF n = 0 THEN NA ELSE <<"2", "0">> \o Trim(yearRow[n].str)
           /\ DOMAIN statusIdx = DOMAIN grid.data
           /\ \A b \in DOMAIN grid.data :
                 LET statusItems == ParsedStatusItems(b)
                 IN /\ Len(statusIdx[b]) = Len(statusItems)
                    /\ \A n \in 1..Len(statusItems) :
                          NearestFirst(statusIdx[b][n], statusItems[n].x)
                    /\ \A c \in 1..Len(grid.headers) :
                          LET n == LastAssigned(statusIdx[b], c)
                          IN c \in DOMAIN grid.data[b] =>
                                grid.data[b][c] =
                                    IF n = 0 THEN << >> ELSE Trim(statusItems[n].str)

\* A year item and a status item each had two nearest headers and went to
\* the first.
C8_Witness ==
    /\ Handled
    /\ Len(grid.headers) = 2
    /\ \E n \in 1..Len(yearIdx) : Tied(ParsedYearRow[n].x) /\ yearIdx[n] = 1
    /\ TRANSUNION \in DOMAIN statusIdx
    /\ \E n \in 1..Len(statusIdx[TRANSUNION]) :
          Tied(ParsedStatusItems(TRANSUNION)[n].x) /\ statusIdx[TRANSUNION][n] = 1

(***************************************************************************)
(* C9.  In every Grid returned by parsePaymentGrid each Header's year is   *)
(* either unresolved or a four-digit string: '20' followed by the two      *)
(* digits of a year-row item.                                              *)
(***************************************************************************)
C9_YearIsFourDigits ==
    Handled =>
        \A c \in 1..Len(grid.headers) :
            \/ grid.headers[c].year = NA
            \/ /\ Len(grid.headers[c].year) = 4
               /\ \A i \in 1..4 : grid.headers[c].year[i] \in Digits
               /\ \E n \in 1..Len(ParsedYearRow) :
                     /\ IsTwoDigits(Trim(ParsedYearRow[n].str))
                     /\ grid.headers[c].year = <<"2", "0">> \o Trim(ParsedYearRow[n].str)

(***************************************************************************)
(* C10.  Grid shape: each bureau's status list has exactly as many entries *)
(* as there are Headers, a column no item was assigned to holding the      *)
(* empty string, so every status index has a Header and the 'N/A'          *)
(* fallback of the issue extractor is never used.                          *)
(***************************************************************************)
C10_StatusListMatchesHeaders ==
    Handled =>
        \A b \in DOMAIN grid.data :
            /\ Len(grid.data[b]) = Len(grid.headers)
            /\ \A c \in 1..Len(grid.data[b]) :
                  /\ c \in DOMAIN grid.headers
                  /\ HeaderAt(grid.headers, c) = grid.headers[c]
                  /\ (\A n \in 1..Len(statusIdx[b]) : statusIdx[b][n] # c) =>
                        grid.data[b][c] = << >>

\* Two headers, and a TransUnion row with a status in one column only.
C10_Witness ==
    /\ Handled
    /\ Len(grid.headers) = 2
    /\ TRANSUNION \in DOMAIN grid.data
    /\ grid.data[TRANSUNION][1] = s30
    /\ \A n \in 1..Len(statusIdx[TRANSUNION]) : statusIdx[TRANSUNION][n] = 1
    /\ grid.data[TRANSUNION][2] = << >>

(***************************************************************************)
(* C5.  Status label resolution is total and never drops a cell: every     *)
(* cell whose trimmed status c is neither empty nor 'OK' yields an issue,  *)
(* whose status is the table label of c when c is a key of the code table  *)
(* and 'Unknown Code: ' followed by c for every other c.                   *)
(***************************************************************************)
\* The label the claim gives code c.
C5_Label(c) == IF c \in DOMAIN LEGEND THEN LEGEND[c] ELSE UNKNOWN_CODE \o c

C5_LabelOfEveryCode ==
    (Handled /\ grid.headers # << >>) =>
        LET cells == C4_Cells
            issues == LastAccount.issues
        IN /\ Len(issues) = Len(cells)
           /\ \A p \in 1..Len(cells) :
                 issues[p].status =
                     C5_Label(Trim(grid.data[BUREAUS[cells[p][1]]][cells[p][2]]))

(***************************************************************************)
(* C6.  Account name resolution: the name of a marker's account is the     *)
(* trimmed string of an item that, among the items on the marker's page    *)
(* with y strictly greater than the marker's, trimmed length greater than  *)
(* 2 and no lower-case letter, is at the smallest vertical distance to the *)
(* marker; it is 'Unknown Account' when no item qualifies.                 *)
(***************************************************************************)
\* The positions of the items that qualify as the name of the marker at
\* position i.
C6_Qualifying(i) ==
    {j \in 1..Len(textItems) :
        /\ textItems[j].page = textItems[i].page
        /\ textItems[j].y > textItems[i].y
        /\ Len(Trim(textItems[j].str)) > 2
        /\ \A c \in 1..Len(textItems[j].str) :
              \A l \in 1..Len(LowerCase) : textItems[j].str[c] # LowerCase[l]}

C6_NameIsNearestAbove ==
    Handled =>
        LET i == CHOOSE m \in MarkerPositions : Ordinal(m) = k - 1
            Q == C6_Qualifying(i)
        IN IF Q = {}
           THEN LastAccount.name = UNKNOWN_ACCOUNT
           ELSE \E j \in Q :
                   /\ \A h \in Q : textItems[j].y <= textItems[h].y
                   /\ LastAccount.name = Trim(textItems[j].str)

\* A qualifying item was chosen although an item in mixed case lies nearer
\* to the marker, and another qualifying item lies farther.
C6_Witness ==
    /\ Handled
    /\ LastAccount.name = <<"Z", "E", "D">>
    /\ \E a, b, c \in 1..Len(textItems) :
          /\ textItems[a].str = sPaddedZed /\ textItems[a].y = TopY + Units(20)
          /\ textItems[a].page = 1
          /\ textItems[b].str = sAcmeMixed /\ textItems[b].y = TopY + Units(10)
          /\ textItems[b].page = 1
          /\ c \in MarkerPositions

====
